---- MODULE Spec2Model ----
(***************************************************************************)
(* route_watch: the congestion-decision engine (route_watch/core.py) over  *)
(* the routing providers of route_watch/api.py.                            *)
(*                                                                         *)
(* Travel times are whole minutes.  A ratio is a pair <<n, d>> with d > 0  *)
(* standing for n / d; ratios are compared by cross-multiplication.        *)
(* One step of the model is one uninterrupted run of the asyncio event     *)
(* loop: a task runs from one suspension point to the next.                *)
(***************************************************************************)
EXTENDS Integers, Sequences, FiniteSets, TLC

VARIABLES
    provider,       \* RouteMonitor.api_client: which TrafficAPI variant
    backend,        \* what the routing backend may answer: [times, errors]
    route_configs,  \* the RouteConfig list handed to the monitor / the check
    lookups,        \* per route, per lookup: the api_client.get_route call
    evals,          \* per route: the _check_route_congestion_async coroutine
    phase,          \* "oneshot" | "gather" | "sleep" | "stopped"
    cycle,          \* number of the monitor cycle (1-based)
    sleep_for,      \* argument of the pending asyncio.sleep, 0 when none
    log,            \* lines printed in the current cycle
    callback,       \* whether a callback was supplied
    callback_calls, \* calls of the callback in the current cycle: the result
                    \* handed over and whether the callback raised
    watch,          \* the CLI command (cli.py watch / check) that drives the engine
    mbx,            \* a MapboxAPI.get_route call and its sub-requests
    call            \* a call of one of the synchronous operations

vars == <<provider, backend, route_configs, lookups, evals, phase, cycle,
          sleep_for, log, callback, callback_calls, watch, mbx, call>>

----------------------------------------------------------------------------
(* Bounds of the model *)

NumRoutes == 2
MaxCycles == 2

(* Program constants *)

None == -1                      \* Optional[float] = None
DefaultThreshold == <<3, 2>>    \* congestion_threshold default 1.5
AlternativeFactor == <<85, 100>>  \* 0.85
check_interval == 300
RecoveryPause == 60
base_travel_time == 30
traffic_multiplier == <<3, 2>>  \* 1.5
KmPerDegree == 111

Providers == {"mapbox", "google", "mock"}
Kinds == {"current", "free_flow", "alternative"}

----------------------------------------------------------------------------
(* Ratios *)

RatGT(a, b) == a[1] * b[2] > b[1] * a[2]
RatEQ(a, b) == a[1] * b[2] = b[1] * a[2]

ZeroDivisionError == <<0, 0>>

\* Python's a / b on floats
Divide(a, b) == IF b = 0 THEN ZeroDivisionError ELSE <<a, b>>

Max(a, b) == IF a >= b THEN a ELSE b
Abs(a) == IF a >= 0 THEN a ELSE -a

----------------------------------------------------------------------------
(* Providers *)

\* math.sqrt(lat_diff**2 + lng_diff**2) * 111, for the endpoints of Init,
\* which differ in at most one of the two coordinates
MockDistanceKm(start, end) ==
    (Abs(end[1] - start[1]) + Abs(end[2] - start[2])) * KmPerDegree

\* MockAPI.get_route: travel_time_minutes of the response
MockAPI_get_route(start, end, waypoints, avoid_traffic) ==
    LET base_time == Max(base_travel_time, MockDistanceKm(start, end) * 2)
    IN  IF avoid_traffic
        THEN base_time
        ELSE (base_time * traffic_multiplier[1]) \div traffic_multiplier[2]

\* The HTTP providers suspend on the network (client.get); MockAPI.get_route
\* has no suspension point and runs to completion within the task's first step.
Suspends(p) == p \in {"mapbox", "google"}

----------------------------------------------------------------------------
(* The three lookups of core.py *)

Request(rc, waypoints, avoid_traffic) ==
    [start |-> rc.start_latlong, end |-> rc.end_latlong,
     waypoints |-> waypoints, avoid_traffic |-> avoid_traffic]

get_current_travel_time(rc) == Request(rc, rc.free_flow_route, FALSE)
get_free_flow_travel_time(rc) == Request(rc, rc.free_flow_route, TRUE)
get_alternative_travel_timeFreeFlow(rc) == Request(rc, <<>>, TRUE)
get_alternative_travel_time(rc) == Request(rc, <<>>, FALSE)

LookupRequest(rc, k) ==
    CASE k = "current" -> get_current_travel_time(rc)
      [] k = "free_flow" -> get_free_flow_travel_time(rc)
      [] k = "alternative" -> get_alternative_travel_time(rc)

NoRequest == [start |-> <<0, 0>>, end |-> <<0, 0>>, waypoints |-> <<>>,
              avoid_traffic |-> FALSE]

Idle == [status |-> "idle", time |-> None, error |-> "", request |-> NoRequest]

\* A lookup whose request has been sent and whose response is awaited
InFlight(req) == [status |-> "inflight", time |-> None, error |-> "", request |-> req]
Ok(req, t) == [status |-> "ok", time |-> t, error |-> "", request |-> req]
Failed(req, e) == [status |-> "failed", time |-> None, error |-> e, request |-> req]

\* The first step of the task of a lookup: the call of api_client.get_route
CallGetRoute(p, req) ==
    IF Suspends(p)
    THEN InFlight(req)
    ELSE Ok(req, MockAPI_get_route(req.start, req.end, req.waypoints, req.avoid_traffic))

----------------------------------------------------------------------------
(* _check_route_congestion_async *)

NoResult == [route_name |-> "", is_congested |-> FALSE,
             current_travel_time |-> None, free_flow_travel_time |-> None,
             congestion_ratio |-> <<0, 1>>, alternative_available |-> FALSE,
             alternative_travel_time |-> None]

Pending == [status |-> "pending", result |-> NoResult, error |-> ""]
Raised(e) == [status |-> "raised", result |-> NoResult, error |-> e]
Returned(res) == [status |-> "returned", result |-> res, error |-> ""]

CongestionRatioUnguarded(current_travel_time, free_flow_travel_time) ==
    Divide(current_travel_time, free_flow_travel_time)

\* core.py line 85
CongestionRatio(current_travel_time, free_flow_travel_time) ==
    IF free_flow_travel_time > 0
    THEN Divide(current_travel_time, free_flow_travel_time)
    ELSE <<1, 1>>

IsCongestedInclusive(congestion_ratio, congestion_threshold) ==
    ~RatGT(congestion_threshold, congestion_ratio)

\* core.py line 86
IsCongested(congestion_ratio, congestion_threshold) ==
    RatGT(congestion_ratio, congestion_threshold)

AlternativeAvailableVsFreeFlow(alternative_travel_time, current_travel_time, free_flow_travel_time) ==
    alternative_travel_time * AlternativeFactor[2]
        < free_flow_travel_time * AlternativeFactor[1]

\* core.py line 96
AlternativeAvailable(alternative_travel_time, current_travel_time, free_flow_travel_time) ==
    alternative_travel_time * AlternativeFactor[2]
        < current_travel_time * AlternativeFactor[1]

CongestionResult(rc, cur, ff, ratio, congested, available, alt) ==
    [route_name |-> rc.name, is_congested |-> congested,
     current_travel_time |-> cur, free_flow_travel_time |-> ff,
     congestion_ratio |-> ratio, alternative_available |-> available,
     alternative_travel_time |-> alt]

OnAlternativeErrorPropagated(rc, cur, ff, ratio, e) == Raised(e)

OnAlternativeErrorKeepsTime(rc, cur, ff, ratio, e) ==
    Returned(CongestionResult(rc, cur, ff, ratio, TRUE, FALSE, cur))

\* core.py lines 97-100: the alternative lookup raised e
OnAlternativeError(rc, cur, ff, ratio, e) ==
    Returned(CongestionResult(rc, cur, ff, ratio, TRUE, FALSE, None))

OnGatherErrorKept(e) == Returned(NoResult)

\* core.py lines 80-82: asyncio.gather without return_exceptions hands the
\* first exception of its tasks to the awaiting coroutine
OnGatherError(e) == Raised(e)

\* core.py lines 92-111, once the pair has been gathered and the route is
\* congested: lk["alternative"] is the state of the third lookup
Conclude(rc, lk, ratio) ==
    LET cur == lk["current"].time
        ff == lk["free_flow"].time
        alt == lk["alternative"]
    IN  CASE alt.status = "ok" ->
               Returned(CongestionResult(rc, cur, ff, ratio, TRUE,
                            AlternativeAvailable(alt.time, cur, ff), alt.time))
          [] alt.status = "failed" -> OnAlternativeError(rc, cur, ff, ratio, alt.error)
          [] OTHER -> [status |-> "alternative", result |-> NoResult, error |-> ""]

NeedsAlternativeAlways(is_congested) == TRUE

\* Whether the third lookup is made: core.py line 92
NeedsAlternative(is_congested) == is_congested

\* core.py lines 84-111, run when both tasks of the gather have a result
AfterGather(p, rc, lk) ==
    LET cur == lk["current"].time
        ff == lk["free_flow"].time
        ratio == CongestionRatio(cur, ff)
        congested == IsCongested(ratio, rc.congestion_threshold)
        lk2 == [lk EXCEPT !["alternative"] =
                    CallGetRoute(p, get_alternative_travel_time(rc))]
    IN  IF ratio = ZeroDivisionError
        THEN [lk |-> lk, ev |-> Raised("ZeroDivisionError")]
        ELSE IF NeedsAlternative(congested)
        THEN [lk |-> lk2, ev |-> Conclude(rc, lk2, ratio)]
        ELSE [lk |-> lk,
              ev |-> Returned(CongestionResult(rc, cur, ff, ratio, congested,
                                               FALSE, None))]

PairFailed(lk) == {k \in {"current", "free_flow"} : lk[k].status = "failed"}

\* Whether the gather of core.py line 80 is complete
GatherDone(lk) == lk["current"].status = "ok" /\ lk["free_flow"].status = "ok"

\* The coroutine of one evaluation, resumed after its lookups changed to lk
Resume(p, rc, lk, ev) ==
    CASE ev.status = "gathering" /\ PairFailed(lk) # {} ->
             [lk |-> lk,
              ev |-> OnGatherError(lk[CHOOSE k \in PairFailed(lk) : TRUE].error)]
      [] ev.status = "gathering" /\ GatherDone(lk) -> AfterGather(p, rc, lk)
      [] ev.status = "alternative" ->
             [lk |-> lk,
              ev |-> Conclude(rc, lk, CongestionRatio(lk["current"].time,
                                                      lk["free_flow"].time))]
      [] OTHER -> [lk |-> lk, ev |-> ev]

Routes == 1 .. Len(route_configs)

Finished(ev) == ev.status \in {"returned", "raised"}

\* The task of one evaluation starts: core.py lines 77-80 create the two
\* coroutines and asyncio.gather schedules a task for each
StartEvaluate(r) ==
    /\ phase \in {"oneshot", "gather"}
    /\ evals[r].status = "pending"
    /\ evals' = [evals EXCEPT ![r].status = "gathering"]
    /\ UNCHANGED <<watch, mbx, call, provider, backend, route_configs, lookups, phase, cycle,
                   sleep_for, log, callback, callback_calls>>

MayStartSequential(lk, k) ==
    /\ lk[k].status = "idle"
    /\ k = "free_flow" => lk["current"].status \in {"ok", "failed"}

\* Whether the task of lookup k of the gather may take its first step.  The
\* event loop runs ready tasks in the order asyncio.gather created them:
\* current, then free_flow (core.py lines 80-82).
MayStart(lk, k) ==
    /\ lk[k].status = "idle"
    /\ k = "free_flow" => lk["current"].status # "idle"

\* First step of the task of the current or the free-flow lookup
RunLookupTask(r, k) ==
    /\ k \in {"current", "free_flow"}
    /\ evals[r].status # "pending"
    /\ MayStart(lookups[r], k)
    /\ LET rc == route_configs[r]
           lk == [lookups[r] EXCEPT ![k] = CallGetRoute(provider, LookupRequest(rc, k))]
           nxt == Resume(provider, rc, lk, evals[r])
       IN  /\ lookups' = [lookups EXCEPT ![r] = nxt.lk]
           /\ evals' = [evals EXCEPT ![r] = nxt.ev]
    /\ UNCHANGED <<watch, mbx, call, provider, backend, route_configs, phase, cycle,
                   sleep_for, log, callback, callback_calls>>

\* The HTTP response of lookup k arrives (api.py lines 81-102, 218-245): a
\* travel time, or an error of the transport or of the backend.  A response
\* is seen at the next poll of the selector, after every ready task has run:
\* no task of the gather is still waiting for its first step.  asyncio.run
\* ends the loop when the evaluation has finished.
Respond(r, k, t, e) ==
    /\ lookups[r][k].status = "inflight"
    /\ \A j \in {"current", "free_flow"} : ~MayStart(lookups[r], j)
    /\ phase = "oneshot" => ~Finished(evals[r])
    /\ LET rc == route_configs[r]
           req == lookups[r][k].request
           lk == [lookups[r] EXCEPT ![k] = IF e = "" THEN Ok(req, t) ELSE Failed(req, e)]
           nxt == Resume(provider, rc, lk, evals[r])
       IN  /\ lookups' = [lookups EXCEPT ![r] = nxt.lk]
           /\ evals' = [evals EXCEPT ![r] = nxt.ev]
    /\ UNCHANGED <<watch, mbx, call, provider, backend, route_configs, phase, cycle,
                   sleep_for, log, callback, callback_calls>>

----------------------------------------------------------------------------
(* monitor_routes_continuously *)

ShouldNotifyAnyCongested(cb, result) == cb /\ result.is_congested

\* core.py line 168
ShouldNotify(cb, result) ==
    cb /\ result.is_congested /\ result.alternative_available

OnCallbackErrorPropagated(acc, result) == [acc EXCEPT !.exc = "CallbackError"]

\* What the except clause of core.py lines 171-172 does with an error of the
\* callback: it prints a line and the for loop goes on
OnCallbackError(acc, result) ==
    [acc EXCEPT !.log = Append(@, <<"callback_error", result.route_name>>)]

OnRouteErrorAborts(acc, rc, ev) == [acc EXCEPT !.exc = ev.error]

\* What core.py lines 159-162 do with a result that is an exception
OnRouteError(acc, rc, ev) ==
    [acc EXCEPT !.log = Append(@, <<"route_error", rc.name>>)]

\* One iteration of the for loop of core.py lines 158-172.  acc.exc is an
\* exception leaving the loop; cb_raises says whether the callback raises.
ProcessResult(acc, cb, rc, ev, cb_raises) ==
    IF acc.exc # "" THEN acc
    ELSE IF ev.status = "raised" THEN OnRouteError(acc, rc, ev)
    ELSE IF ShouldNotify(cb, ev.result)
    THEN LET called == [acc EXCEPT !.calls =
                            Append(@, [result |-> ev.result, raised |-> cb_raises])]
         IN  IF cb_raises THEN OnCallbackError(called, ev.result) ELSE called
    ELSE acc

RECURSIVE ProcessResults(_, _, _, _, _, _)
ProcessResults(i, acc, cb, rcs, evs, raises) ==
    IF i > Len(rcs) THEN acc
    ELSE ProcessResults(i + 1, ProcessResult(acc, cb, rcs[i], evs[i], raises[i]),
                        cb, rcs, evs, raises)

OnLoopErrorReraised(e) == [phase |-> "stopped", sleep_for |-> 0]

\* core.py lines 177-179: an Exception left the try body of the while loop;
\* it is printed and the loop pauses before the next cycle
OnLoopError(e) == [phase |-> "sleep", sleep_for |-> RecoveryPause]

\* core.py lines 155-179: the outer gather (return_exceptions=True) is
\* complete; the results are processed without suspension and the loop
\* goes to sleep
FinishCycle(raises) ==
    /\ phase = "gather"
    /\ \A r \in Routes : Finished(evals[r])
    /\ LET acc == ProcessResults(1, [log |-> <<>>, calls |-> <<>>, exc |-> ""],
                                 callback, route_configs, evals, raises)
       IN  /\ callback_calls' = acc.calls
           /\ IF acc.exc = ""
              THEN /\ log' = acc.log
                   /\ sleep_for' = check_interval
                   /\ phase' = "sleep"
              ELSE /\ log' = Append(acc.log, <<"loop_error", acc.exc>>)
                   /\ sleep_for' = OnLoopError(acc.exc).sleep_for
                   /\ phase' = OnLoopError(acc.exc).phase
    /\ UNCHANGED <<watch, mbx, call, provider, backend, route_configs, lookups, evals, cycle,
                   callback>>

\* core.py lines 146-155, 177-179: an unexpected Exception e is raised in
\* the try body while the cycle awaits its evaluations (outside the
\* evaluations themselves, whose errors the gather returns as results).
\* The tasks of the cycle are left behind.
UnexpectedError(e) ==
    /\ phase = "gather"
    /\ log' = Append(log, <<"loop_error", e>>)
    /\ sleep_for' = OnLoopError(e).sleep_for
    /\ phase' = OnLoopError(e).phase
    /\ UNCHANGED <<watch, mbx, call, provider, backend, route_configs, lookups, evals, cycle,
                   callback, callback_calls>>

\* The sleep ends and the while loop of core.py line 145 starts a new cycle:
\* new tasks, new lookups
NextCycle ==
    /\ phase = "sleep"
    /\ cycle < MaxCycles
    /\ phase' = "gather"
    /\ cycle' = cycle + 1
    /\ sleep_for' = 0
    /\ log' = <<>>
    /\ callback_calls' = <<>>
    /\ evals' = [r \in Routes |-> Pending]
    /\ lookups' = [r \in Routes |-> [k \in Kinds |-> Idle]]
    /\ UNCHANGED <<watch, mbx, call, provider, backend, route_configs, callback>>

----------------------------------------------------------------------------
(* Specifications *)

Errors == {"HTTPStatusError", "ValueError"}

\* Travel times (minutes) of an HTTP backend in the one-shot check
CheckTimes == {0, 17, 20, 40}

\* Travel times (minutes) of an HTTP backend under the monitor
MonitorTimes == {10, 20}

Waypoint == <<0, 0>>

RouteConfig(name, end, free_flow_route, congestion_threshold) ==
    [name |-> name, start_latlong |-> <<0, 0>>, end_latlong |-> end,
     free_flow_route |-> free_flow_route,
     congestion_threshold |-> congestion_threshold]

TypeOK ==
    /\ provider \in Providers
    /\ phase \in {"oneshot", "gather", "sleep", "stopped"}
    /\ cycle \in 1 .. MaxCycles
    /\ callback \in BOOLEAN
    /\ \A r \in Routes :
          /\ evals[r].status \in {"pending", "gathering", "alternative",
                                  "returned", "raised"}
          /\ \A k \in Kinds :
                lookups[r][k].status \in {"idle", "inflight", "ok", "failed"}

\* No CLI command, no Mapbox call, no synchronous call under way
NoWatch == [command |-> "", state |-> "off", routes |-> <<>>, i |-> 0,
            exit_code |-> None, alerts |-> <<>>]
NoMbx == [state |-> "off"]
NoCall == [op |-> "", state |-> "off"]

InitCommon ==
    /\ watch = NoWatch
    /\ mbx = NoMbx
    /\ call = NoCall
    /\ provider \in Providers
    /\ cycle = 1
    /\ sleep_for = 0
    /\ log = <<>>
    /\ callback_calls = <<>>
    /\ evals = [r \in Routes |-> Pending]
    /\ lookups = [r \in Routes |-> [k \in Kinds |-> Idle]]

\* monitor_routes_continuously(route_configs, check_interval, callback)
Init ==
    /\ route_configs = [r \in 1 .. NumRoutes |->
                           RouteConfig(r, <<0, 0>>, <<>>, DefaultThreshold)]
    /\ backend = [times |-> MonitorTimes, errors |-> {"ValueError"}]
    /\ phase = "gather"
    /\ callback \in BOOLEAN
    /\ InitCommon

\* The response of an HTTP backend: a travel time
RespondTime == \E r \in Routes, k \in Kinds, t \in backend.times : Respond(r, k, t, "")

\* The response of an HTTP backend: an error
RespondError == \E r \in Routes, k \in Kinds, e \in backend.errors : Respond(r, k, None, e)

Next ==
    \/ \E r \in Routes : StartEvaluate(r)
    \/ \E r \in Routes, k \in {"current", "free_flow"} : RunLookupTask(r, k)
    \/ RespondTime
    \/ RespondError
    \/ \E raises \in [Routes -> BOOLEAN] : FinishCycle(raises)
    \/ NextCycle

Spec == Init /\ [][Next]_vars

\* The monitor in an environment where the try body may raise
NextRecover ==
    \/ \E r \in Routes : StartEvaluate(r)
    \/ \E r \in Routes, k \in {"current", "free_flow"} : RunLookupTask(r, k)
    \/ RespondTime
    \/ RespondError
    \/ \E raises \in [Routes -> BOOLEAN] : FinishCycle(raises)
    \/ \E e \in {"RuntimeError"} : UnexpectedError(e)
    \/ NextCycle

SpecRecover == Init /\ [][NextRecover]_vars

\* check_route_congestion(route_config): asyncio.run of one evaluation
InitCheck ==
    /\ \E end \in {<<0, 0>>, <<0, 1>>} :
       \E wps \in {<<>>, <<Waypoint>>} :
       \E thr \in {<<1, 1>>, DefaultThreshold} :
          route_configs = <<RouteConfig(1, end, wps, thr)>>
    /\ backend = [times |-> CheckTimes, errors |-> Errors]
    /\ phase = "oneshot"
    /\ callback = FALSE
    /\ InitCommon

NextCheck ==
    \/ \E r \in Routes : StartEvaluate(r)
    \/ \E r \in Routes, k \in {"current", "free_flow"} : RunLookupTask(r, k)
    \/ RespondTime
    \/ RespondError

SpecCheck == InitCheck /\ [][NextCheck]_vars

----------------------------------------------------------------------------
(* cli.py: the watch and the check command *)

\* cli.py lines 229-231 (watch) and 96-98 (check): the outer except clause
OnCommandError(w, e) == [w EXCEPT !.state = "exited", !.exit_code = 1]

\* cli.py lines 210-221 (watch) and 70-86 (check): the alert of a result
Alerts(w, result) ==
    IF result.is_congested /\ result.alternative_available
    THEN [w EXCEPT !.alerts = Append(@, result.route_name)]
    ELSE w

\* cli.py line 208 (watch) and line 67 (check): the command calls
\* monitor.check_route_congestion for its next route, which runs one
\* evaluation under asyncio.run
CommandCheck ==
    /\ watch.state = "running"
    /\ route_configs = <<>>
    /\ route_configs' = <<watch.routes[watch.i]>>
    /\ evals' = <<Pending>>
    /\ lookups' = <<[k \in Kinds |-> Idle]>>
    /\ UNCHANGED <<provider, backend, phase, cycle, sleep_for, log, callback,
                   callback_calls, watch, mbx, call>>

\* check_route_congestion has returned or raised.  cli.py lines 200-231:
\* the try inside the while loop of watch catches KeyboardInterrupt only, so
\* an exception of the evaluation reaches the outer except clause, which
\* prints it and exits with status 1.  After the last route watch sleeps
\* (line 223); check ends (lines 67-94).
CommandResult ==
    /\ watch.state = "running"
    /\ Len(evals) = 1
    /\ Finished(evals[1])
    /\ IF evals[1].status = "raised"
       THEN /\ watch' = OnCommandError(watch, evals[1].error)
            /\ log' = Append(log, <<"Error", evals[1].error>>)
            /\ UNCHANGED <<route_configs, evals, lookups, sleep_for>>
       ELSE /\ LET w == Alerts(watch, evals[1].result)
               IN  watch' =
                     IF watch.command = "check"
                     THEN [w EXCEPT !.state = "exited", !.exit_code = 0]
                     ELSE IF watch.i < Len(watch.routes)
                     THEN [w EXCEPT !.i = @ + 1]
                     ELSE [w EXCEPT !.state = "sleeping"]
            /\ sleep_for' = IF watch.command = "watch" /\ watch.i = Len(watch.routes)
                            THEN check_interval ELSE sleep_for
            /\ route_configs' = <<>>
            /\ evals' = <<>>
            /\ lookups' = <<>>
            /\ log' = log
    /\ UNCHANGED <<provider, backend, phase, cycle, callback, callback_calls,
                   mbx, call>>

\* cli.py lines 200-223: time.sleep(interval) ends and the while loop of
\* watch starts over
WatchWake ==
    /\ watch.state = "sleeping"
    /\ cycle < MaxCycles
    /\ cycle' = cycle + 1
    /\ sleep_for' = 0
    /\ watch' = [watch EXCEPT !.state = "running", !.i = 1, !.alerts = <<>>]
    /\ UNCHANGED <<provider, backend, route_configs, lookups, evals, phase,
                   log, callback, callback_calls, mbx, call>>

\* cli.py lines 225-227: Ctrl+C during the sleep ends the loop
WatchInterrupt ==
    /\ watch.state = "sleeping"
    /\ watch' = [watch EXCEPT !.state = "exited", !.exit_code = 0]
    /\ UNCHANGED <<provider, backend, route_configs, lookups, evals, phase,
                   cycle, sleep_for, log, callback, callback_calls, mbx, call>>

\* `route_watch watch` over all routes of the configuration, or
\* `route_watch check --route` for one of them
InitWatch ==
    /\ provider \in Providers
    /\ backend = [times |-> MonitorTimes, errors |-> {"ValueError"}]
    /\ \E cmd \in {"watch", "check"} :
          watch = [command |-> cmd, state |-> "running",
                   routes |-> [r \in 1 .. (IF cmd = "watch" THEN NumRoutes ELSE 1) |->
                                 RouteConfig(r, <<0, 0>>, <<>>, DefaultThreshold)],
                   i |-> 1, exit_code |-> None, alerts |-> <<>>]
    /\ route_configs = <<>>
    /\ evals = <<>>
    /\ lookups = <<>>
    /\ phase = "oneshot"
    /\ cycle = 1
    /\ sleep_for = 0
    /\ log = <<>>
    /\ callback = FALSE
    /\ callback_calls = <<>>
    /\ mbx = NoMbx
    /\ call = NoCall

NextWatch ==
    \/ CommandCheck
    \/ \E r \in Routes : StartEvaluate(r)
    \/ \E r \in Routes, k \in {"current", "free_flow"} : RunLookupTask(r, k)
    \/ RespondTime
    \/ RespondError
    \/ CommandResult
    \/ WatchWake
    \/ WatchInterrupt

SpecWatch == InitWatch /\ [][NextWatch]_vars

----------------------------------------------------------------------------
(* MapboxAPI.get_route and _get_route_chunked *)

\* Bound: the longest waypoint list handed to MapboxAPI.get_route
MaxWaypoints == 47

MapboxWaypointLimit == 23   \* api.py line 62
chunk_size == 23            \* api.py line 115

Min(a, b) == IF a <= b THEN a ELSE b

\* Python's s[a:b] for 0 <= a <= b
Slice(s, a, b) == SubSeq(s, a + 1, Min(b, Len(s)))

Last(s) == s[Len(s)]

\* The i-th point of a call: (lat, lng).  Point(0) is the start.
Point(i) == <<i, 100 + i>>

\* f"{p[1]},{p[0]}": a coordinate as Mapbox takes it, lng first
LngLat(p) == <<p[2], p[1]>>

\* [(lat, lng) for lng, lat in geometry]
FromGeometry(geometry) == [j \in 1 .. Len(geometry) |-> <<geometry[j][2], geometry[j][1]>>]

ShouldChunkAboveTotal(waypoints) == Len(waypoints) > MapboxWaypointLimit + 2

\* api.py line 62
ShouldChunk(waypoints) == Len(waypoints) > 0 /\ Len(waypoints) > MapboxWaypointLimit

RECURSIVE ChunksFromWide(_, _)
ChunksFromWide(waypoints, i) ==
    IF i >= Len(waypoints) THEN <<>>
    ELSE <<Slice(waypoints, i, i + chunk_size + 2)>>
             \o ChunksFromWide(waypoints, i + chunk_size + 2)

\* api.py line 116: [waypoints[i:i + chunk_size] for i in range(0, len(waypoints), chunk_size)]
RECURSIVE ChunksFrom(_, _)
ChunksFrom(waypoints, i) ==
    IF i >= Len(waypoints) THEN <<>>
    ELSE <<Slice(waypoints, i, i + chunk_size)>> \o ChunksFrom(waypoints, i + chunk_size)

\* api.py lines 66-69: the coordinates of a request
Coordinates(start, waypoints, end) ==
    <<LngLat(start)>> \o [j \in 1 .. Len(waypoints) |-> LngLat(waypoints[j])]
        \o <<LngLat(end)>>

ChunkRequestWholeChunk(current_start, chunk, is_last, end) ==
    Coordinates(current_start, chunk, IF is_last THEN end ELSE Last(chunk))

\* api.py lines 126-133: the coordinates of the sub-request of a chunk
ChunkRequest(current_start, chunk, is_last, end) ==
    LET current_end == IF is_last THEN end ELSE Last(chunk)
        current_waypoints == IF is_last THEN chunk ELSE Slice(chunk, 0, Len(chunk) - 1)
    IN  Coordinates(current_start, current_waypoints, current_end)

MergeChunkKeepAll(all_route_waypoints, chunk_waypoints, i) ==
    all_route_waypoints \o chunk_waypoints

\* api.py lines 161-166; i is the 0-based index of the chunk
MergeChunk(all_route_waypoints, chunk_waypoints, i) ==
    IF i > 0 /\ all_route_waypoints # <<>> /\ chunk_waypoints # <<>>
    THEN all_route_waypoints \o Tail(chunk_waypoints)
    ELSE all_route_waypoints \o chunk_waypoints

\* What the backend may answer to a request: a route with a duration
\* (seconds), a distance (meters) and a geometry in lng, lat order
MapboxRoutes(coords) ==
    [duration : {60, 120}, distance : {1000},
     geometry : {<<>>, <<coords[1], Last(coords)>>, coords}]

\* get_route is called: api.py lines 59-82 send the only request, or lines
\* 112-146 the sub-request of the first chunk
MapboxStart ==
    /\ mbx.state = "called"
    /\ LET chunked == ShouldChunk(mbx.waypoints)
           chunks == IF chunked THEN ChunksFrom(mbx.waypoints, 0) ELSE <<>>
           req == IF chunked
                  THEN ChunkRequest(mbx.start, chunks[1], Len(chunks) = 1, mbx.end)
                  ELSE Coordinates(mbx.start, mbx.waypoints, mbx.end)
       IN  mbx' = [mbx EXCEPT !.state = "awaiting", !.chunked = chunked,
                              !.chunks = chunks, !.i = 0,
                              !.current_start = mbx.start,
                              !.requests = <<req>>]
    /\ UNCHANGED <<provider, backend, route_configs, lookups, evals, phase,
                   cycle, sleep_for, log, callback, callback_calls, watch, call>>

\* The backend answers the request in flight with a route.  Unchunked
\* (api.py lines 89-102): the response is returned.  Chunked (lines
\* 153-176): the totals and the merged waypoints are updated and the next
\* sub-request is sent, or the aggregate is returned after the last chunk.
MapboxRespond(route) ==
    /\ mbx.state = "awaiting"
    /\ LET chunk_waypoints == FromGeometry(route.geometry)
           i == mbx.i
           is_last == i = Len(mbx.chunks) - 1
           chunk == mbx.chunks[i + 1]
           current_end == IF is_last THEN mbx.end ELSE Last(chunk)
           merged == MergeChunk(mbx.all_route_waypoints, chunk_waypoints, i)
           acc == [mbx EXCEPT !.geometries = Append(@, chunk_waypoints),
                              !.total_duration = @ + route.duration,
                              !.total_distance = @ + route.distance]
       IN  IF ~mbx.chunked
           THEN mbx' = [acc EXCEPT !.state = "returned",
                                   !.all_route_waypoints = chunk_waypoints,
                                   !.route_geometry = "geometry"]
           ELSE IF is_last
           THEN mbx' = [acc EXCEPT !.state = "returned",
                                   !.all_route_waypoints = merged,
                                   !.current_start = current_end]
           ELSE mbx' = [acc EXCEPT !.all_route_waypoints = merged,
                                   !.current_start = current_end,
                                   !.i = i + 1,
                                   !.requests = Append(@,
                                       ChunkRequest(current_end, mbx.chunks[i + 2],
                                                    i + 1 = Len(mbx.chunks) - 1, mbx.end))]
    /\ UNCHANGED <<provider, backend, route_configs, lookups, evals, phase,
                   cycle, sleep_for, log, callback, callback_calls, watch, call>>

\* The request in flight fails: raise_for_status (api.py lines 83, 147) or
\* no routes in the answer (lines 86-87, 150-151)
MapboxFail(e) ==
    /\ mbx.state = "awaiting"
    /\ mbx' = [mbx EXCEPT !.state = "raised", !.error = e]
    /\ UNCHANGED <<provider, backend, route_configs, lookups, evals, phase,
                   cycle, sleep_for, log, callback, callback_calls, watch, call>>

MapboxAnswer ==
    /\ mbx.state = "awaiting"
    /\ \E route \in MapboxRoutes(Last(mbx.requests)) : MapboxRespond(route)

\* MapboxAPI.get_route(start, end, waypoints, avoid_traffic)
InitMapbox ==
    /\ \E n \in 0 .. MaxWaypoints : \E avoid_traffic \in BOOLEAN :
          mbx = [state |-> "called",
                 start |-> Point(0), end |-> Point(n + 1),
                 waypoints |-> [j \in 1 .. n |-> Point(j)],
                 profile |-> IF avoid_traffic THEN "driving" ELSE "driving-traffic",
                 chunked |-> FALSE, chunks |-> <<>>, i |-> 0,
                 current_start |-> Point(0), requests |-> <<>>, geometries |-> <<>>,
                 total_duration |-> 0, total_distance |-> 0,
                 all_route_waypoints |-> <<>>, route_geometry |-> "", error |-> ""]
    /\ provider = "mapbox"
    /\ backend = [times |-> {}, errors |-> Errors]
    /\ route_configs = <<>>
    /\ evals = <<>>
    /\ lookups = <<>>
    /\ phase = "oneshot"
    /\ cycle = 1
    /\ sleep_for = 0
    /\ log = <<>>
    /\ callback = FALSE
    /\ callback_calls = <<>>
    /\ watch = NoWatch
    /\ call = NoCall

NextMapbox ==
    \/ MapboxStart
    \/ MapboxAnswer
    \/ \E e \in backend.errors : MapboxFail(e)

SpecMapbox == InitMapbox /\ [][NextMapbox]_vars

----------------------------------------------------------------------------
(* Synchronous operations: one call, from its arguments to its outcome *)

\* A call: its arguments, and what it reads from outside the program
\* (the environment, the backend's answer)
Called(op, input, outside) ==
    [op |-> op, state |-> "called", input |-> input, outside |-> outside,
     output |-> <<>>,
     error |-> [type |-> "", message |-> ""]]

ReturnsFrom(c, output) == [c EXCEPT !.state = "returned", !.output = output]
RaisesFrom(c, type, message) ==
    [c EXCEPT !.state = "raised", !.error = [type |-> type, message |-> message]]

(* create_api_client *)

\* api_config.get("provider") when the key is missing
Absent == "<absent>"

\* bool(x) of an optional string
Truthy(x) == x # Absent /\ x # ""

\* str.lower() on the identifiers of the model
Lower(x) ==
    CASE x = "Mapbox" -> "mapbox"
      [] x = "GOOGLE" -> "google"
      [] OTHER -> x

CredentialEnvFirst(config_key, env_key) ==
    IF Truthy(env_key) THEN env_key ELSE config_key

\* api.py lines 335, 341: api_config.get("api_key") or os.getenv(...)
Credential(config_key, env_key) ==
    IF Truthy(config_key) THEN config_key ELSE env_key

\* api.py lines 321-350.  The outcome: the client or the error raised.
create_api_client(api_config, environ) ==
    LET warned == ~Truthy(api_config.provider)
        name == Lower(IF warned THEN "mock" ELSE api_config.provider)
        client(variant, key) == [kind |-> "client", variant |-> variant,
                                 api_key |-> key, warned |-> warned]
        failure(message) == [kind |-> "error", type |-> "ValueError",
                             message |-> message]
    IN  CASE name = "mapbox" ->
               LET api_key == Credential(api_config.api_key, environ.MAPBOX_API_KEY)
               IN  IF ~Truthy(api_key)
                   THEN failure("Mapbox API key not found in config or MAPBOX_API_KEY environment variable")
                   ELSE client("MapboxAPI", api_key)
          [] name = "google" ->
               LET api_key == Credential(api_config.api_key, environ.GOOGLE_MAPS_API_KEY)
               IN  IF ~Truthy(api_key)
                   THEN failure("Google Maps API key not found in config or GOOGLE_MAPS_API_KEY environment variable")
                   ELSE client("GoogleMapsAPI", api_key)
          [] name = "mock" -> client("MockAPI", Absent)
          [] OTHER -> failure("Unsupported API provider")

CreateApiClient ==
    /\ call.op = "create_api_client"
    /\ call.state = "called"
    /\ LET out == create_api_client(call.input, call.outside)
       IN  call' = IF out.kind = "client"
                   THEN ReturnsFrom(call, out)
                   ELSE RaisesFrom(call, out.type, out.message)
    /\ UNCHANGED <<provider, backend, route_configs, lookups, evals, phase,
                   cycle, sleep_for, log, callback, callback_calls, watch, mbx>>

ProviderIds == {Absent, "", "mapbox", "Mapbox", "google", "GOOGLE", "mock", "here"}

ApiConfigs == [provider : ProviderIds, api_key : {Absent, "", "config-key"}]

Environs == [MAPBOX_API_KEY : {Absent, "env-mapbox-key"},
             GOOGLE_MAPS_API_KEY : {Absent, "env-google-key"}]

(* RouteMonitor.get_optimal_route_waypoints *)

\* Bound: the longest waypoint list of an optimal-route response
MaxRoutePoints == 5

InteriorKeepsEnd(waypoints) ==
    IF Len(waypoints) > 2 THEN Slice(waypoints, 1, Len(waypoints)) ELSE <<>>

\* core.py lines 130-136: waypoints[1:-1] when there are more than two
Interior(waypoints) ==
    IF Len(waypoints) > 2 THEN Slice(waypoints, 1, Len(waypoints) - 1) ELSE <<>>

\* core.py lines 121-136, for the waypoints of the provider's response
GetOptimalRouteWaypoints ==
    /\ call.op = "get_optimal_route_waypoints"
    /\ call.state = "called"
    /\ call' = ReturnsFrom(call, Interior(call.outside.waypoints))
    /\ UNCHANGED <<provider, backend, route_configs, lookups, evals, phase,
                   cycle, sleep_for, log, callback, callback_calls, watch, mbx>>

\* RouteResponse.waypoints of api.get_optimal_route(start, end)
OptimalRouteResponses ==
    {[waypoints |-> [j \in 1 .. n |-> Point(j - 1)]] : n \in 0 .. MaxRoutePoints}

(* RouteConfig(...) construction *)

\* Bound: the longest free_flow_route of a constructed RouteConfig
MaxFreeFlow == 2

InRangeExclusive(v) == -90 < v[1] /\ v[1] < 90 /\ -180 < v[2] /\ v[2] < 180

\* config.py lines 35-38 and 48-51: both bounds inclusive
InRange(v) == -90 <= v[1] /\ v[1] <= 90 /\ -180 <= v[2] /\ v[2] <= 180

\* config.py lines 28-39: TRUE when the validator returns v
validate_coordinates(v) == InRange(v)

validate_waypointsUnchecked(v) == TRUE

\* config.py lines 41-53: TRUE when the validator returns v
validate_waypoints(v) == \A j \in 1 .. Len(v) : InRange(v[j])

\* The fields pydantic rejects, in declaration order
InvalidFields(kw) ==
    SelectSeq(<<"start_latlong", "end_latlong", "free_flow_route">>,
              LAMBDA f : IF f = "free_flow_route"
                         THEN ~validate_waypoints(kw[f])
                         ELSE ~validate_coordinates(kw[f]))

\* config.py lines 13-53, for keyword arguments without congestion_threshold
ConstructRouteConfig ==
    /\ call.op = "RouteConfig"
    /\ call.state = "called"
    /\ call' = IF InvalidFields(call.input) = <<>>
               THEN ReturnsFrom(call,
                       [name |-> call.input.name,
                        start_latlong |-> call.input.start_latlong,
                        end_latlong |-> call.input.end_latlong,
                        free_flow_route |-> call.input.free_flow_route,
                        congestion_threshold |-> DefaultThreshold])
               ELSE RaisesFrom(call, "ValidationError", InvalidFields(call.input))
    /\ UNCHANGED <<provider, backend, route_configs, lookups, evals, phase,
                   cycle, sleep_for, log, callback, callback_calls, watch, mbx>>

\* Coordinates on, just inside and just outside the bounds
Coords == {<<0, 0>>, <<-90, -180>>, <<90, 180>>,
           <<-91, 0>>, <<91, 0>>, <<0, -181>>, <<0, 181>>}

CoordLists == UNION {[1 .. n -> Coords] : n \in 0 .. MaxFreeFlow}

RouteConfigArgs ==
    [name : {"commute"}, start_latlong : Coords, end_latlong : Coords,
     free_flow_route : CoordLists]

(* GoogleMapsAPI.get_route *)

\* Bound: the longest waypoint list of a Directions request
MaxStopovers == 2

\* One leg of the Directions answer; duration_in_traffic may be missing
Legs == [duration : {600, 900}, duration_in_traffic : {None, 1200},
         distance : {5000}]

\* The Directions answer to a request with n stopovers: n + 1 legs
DirectionsAnswers(n) ==
    [status : {"OK"}, legs : [1 .. n + 1 -> Legs]]
        \cup {[status |-> "ZERO_RESULTS", legs |-> <<>>]}

RECURSIVE Sum(_)
Sum(values) == IF values = <<>> THEN 0 ELSE values[1] + Sum(Tail(values))

LegsReadAll(legs) == legs

\* api.py line 227: leg = route["legs"][0]
LegsRead(legs) == <<legs[1]>>

\* api.py lines 229-233
LegDuration(leg, avoid_traffic) ==
    IF ~avoid_traffic /\ leg.duration_in_traffic # None
    THEN leg.duration_in_traffic
    ELSE leg.duration

LegDistance(leg) == leg.distance

\* api.py lines 194-245.  The quotients / 60 and / 1000 are kept as pairs.
GoogleGetRoute ==
    /\ call.op = "GoogleMapsAPI.get_route"
    /\ call.state = "called"
    /\ LET data == call.outside
           avoid_traffic == call.input.avoid_traffic
           legs == LegsRead(data.legs)
           duration_seconds ==
               Sum([j \in 1 .. Len(legs) |-> LegDuration(legs[j], avoid_traffic)])
           distance_meters == Sum([j \in 1 .. Len(legs) |-> LegDistance(legs[j])])
       IN  call' = IF data.status # "OK"
                   THEN RaisesFrom(call, "ValueError", "Google Maps API error")
                   ELSE ReturnsFrom(call,
                           [travel_time_minutes |-> <<duration_seconds, 60>>,
                            distance_km |-> <<distance_meters, 1000>>,
                            waypoints |-> <<call.input.start, call.input.end>>])
    /\ UNCHANGED <<provider, backend, route_configs, lookups, evals, phase,
                   cycle, sleep_for, log, callback, callback_calls, watch, mbx>>

GoogleRequests ==
    {[start |-> Point(0), end |-> Point(n + 1),
      waypoints |-> [j \in 1 .. n |-> Point(j)],
      avoid_traffic |-> a] : n \in 0 .. MaxStopovers, a \in BOOLEAN}

(* The specification of the synchronous operations *)

InitCalls ==
    /\ provider = "mock"
    /\ backend = [times |-> {}, errors |-> {}]
    /\ route_configs = <<>>
    /\ lookups = <<>>
    /\ evals = <<>>
    /\ phase = "oneshot"
    /\ cycle = 1
    /\ sleep_for = 0
    /\ log = <<>>
    /\ callback = FALSE
    /\ callback_calls = <<>>
    /\ watch = NoWatch
    /\ mbx = NoMbx
    /\ \/ \E c \in ApiConfigs, e \in Environs :
             call = Called("create_api_client", c, e)
       \/ \E w \in OptimalRouteResponses :
             call = Called("get_optimal_route_waypoints",
                           [start |-> Point(0), end |-> Point(MaxRoutePoints)], w)
       \/ \E kw \in RouteConfigArgs :
             call = Called("RouteConfig", kw, <<>>)
       \/ \E rq \in GoogleRequests :
             \E data \in DirectionsAnswers(Len(rq.waypoints)) :
                call = Called("GoogleMapsAPI.get_route", rq, data)

NextCalls ==
    \/ CreateApiClient
    \/ GetOptimalRouteWaypoints
    \/ ConstructRouteConfig
    \/ GoogleGetRoute

SpecCalls == InitCalls /\ [][NextCalls]_vars

----------------------------------------------------------------------------
(* Properties of one evaluation *)

Result(r) == evals[r].result
Lk(r, k) == lookups[r][k]
Issued(r) == {k \in Kinds : Lk(r, k).status # "idle"}

\* C1: every result returned by the evaluation has is_congested true exactly
\* when congestion_ratio is strictly greater than the route's threshold; a
\* ratio equal to the threshold is not congested.
C1_StrictThreshold ==
    \A r \in Routes :
        evals[r].status = "returned" =>
            /\ Result(r).is_congested <=>
                   RatGT(Result(r).congestion_ratio, route_configs[r].congestion_threshold)
            /\ RatEQ(Result(r).congestion_ratio, route_configs[r].congestion_threshold)
                   => ~Result(r).is_congested

\* C1 witness: a result whose ratio, a quotient of two lookups, equals the
\* threshold
C1_Witness ==
    \E r \in Routes :
        /\ evals[r].status = "returned"
        /\ Result(r).free_flow_travel_time > 0
        /\ RatEQ(Result(r).congestion_ratio, route_configs[r].congestion_threshold)
        /\ ~Result(r).is_congested

\* C2: once both lookups of the pair have answered, the evaluation has not
\* raised, and its ratio is current / free_flow when free_flow is not 0 and
\* exactly 1.0 when free_flow is 0.
C2_RatioDefined ==
    \A r \in Routes :
        GatherDone(lookups[r]) =>
            /\ evals[r].status # "raised"
            /\ evals[r].status = "returned" =>
                  LET cur == Lk(r, "current").time
                      ff == Lk(r, "free_flow").time
                      ratio == Result(r).congestion_ratio
                  IN  /\ ratio[2] # 0
                      /\ ff # 0 => RatEQ(ratio, <<cur, ff>>)
                      /\ ff = 0 => RatEQ(ratio, <<1, 1>>)

\* C2 witness: a result computed from a free-flow time of 0 and a current
\* time that is not 0
C2_Witness ==
    \E r \in Routes :
        /\ evals[r].status = "returned"
        /\ Lk(r, "free_flow").time = 0
        /\ Lk(r, "current").time > 0
        /\ RatEQ(Result(r).congestion_ratio, <<1, 1>>)

\* C3: in every result whose alternative lookup was made and succeeded,
\* alternative_available is true exactly when the alternative time is
\* strictly below 85% of the current time (not of the free-flow time).
C3_AlternativeRule ==
    \A r \in Routes :
        (evals[r].status = "returned" /\ Lk(r, "alternative").status = "ok") =>
            /\ Result(r).alternative_travel_time = Lk(r, "alternative").time
            /\ Result(r).alternative_available <=>
                   (Lk(r, "alternative").time * 100 < Lk(r, "current").time * 85)

\* C3 witness: an alternative of exactly 85% of the current time,
\* reported as not available
C3_Witness ==
    \E r \in Routes :
        /\ evals[r].status = "returned"
        /\ Lk(r, "alternative").status = "ok"
        /\ Lk(r, "alternative").time * 100 = Lk(r, "current").time * 85
        /\ Lk(r, "current").time > 0
        /\ ~Result(r).alternative_available

\* C4: the alternative lookup is issued only when the current and the
\* free-flow lookup have both succeeded and the verdict is congested; a
\* result that is not congested comes from exactly the two lookups of the
\* pair.
C4_AlternativeAfterPair ==
    \A r \in Routes :
        /\ Lk(r, "alternative").status # "idle" =>
              /\ Lk(r, "current").status = "ok"
              /\ Lk(r, "free_flow").status = "ok"
              /\ evals[r].status \in {"alternative", "returned"}
              /\ RatGT(<<Lk(r, "current").time, Lk(r, "free_flow").time>>,
                       route_configs[r].congestion_threshold)
        /\ (evals[r].status = "returned" /\ ~Result(r).is_congested) =>
              Issued(r) = {"current", "free_flow"}
        /\ Cardinality(Issued(r)) <= 3

\* C4 witness: the third request awaiting its response after the pair
\* answered
C4_Witness ==
    \E r \in Routes :
        /\ Lk(r, "alternative").status = "inflight"
        /\ evals[r].status = "alternative"

\* C5: when the alternative lookup has failed, the evaluation has returned a
\* result with is_congested, no alternative available, no alternative time,
\* and the times and the ratio of the pair.
C5_AlternativeErrorSwallowed ==
    \A r \in Routes :
        Lk(r, "alternative").status = "failed" =>
            /\ evals[r].status = "returned"
            /\ Result(r).is_congested
            /\ ~Result(r).alternative_available
            /\ Result(r).alternative_travel_time = None
            /\ Result(r).current_travel_time = Lk(r, "current").time
            /\ Result(r).free_flow_travel_time = Lk(r, "free_flow").time
            /\ RatEQ(Result(r).congestion_ratio,
                     <<Lk(r, "current").time, Lk(r, "free_flow").time>>)

\* C5 witness: a failed alternative lookup
C5_Witness ==
    \E r \in Routes :
        /\ Lk(r, "alternative").status = "failed"
        /\ evals[r].status = "returned"

\* C6: when the current or the free-flow lookup has failed, the evaluation
\* has raised the error of a failed lookup, has no result, and the
\* alternative lookup was not issued.
C6_PairErrorPropagates ==
    \A r \in Routes :
        PairFailed(lookups[r]) # {} =>
            /\ evals[r].status = "raised"
            /\ \E k \in PairFailed(lookups[r]) : evals[r].error = Lk(r, k).error
            /\ evals[r].result = NoResult
            /\ Lk(r, "alternative").status = "idle"

\* C6 witness: the free-flow lookup failed after the current one succeeded
C6_Witness ==
    \E r \in Routes :
        /\ Lk(r, "free_flow").status = "failed"
        /\ Lk(r, "current").status = "ok"
        /\ evals[r].status = "raised"

IssuedNow(r, k) == Lk(r, k).status = "idle" /\ lookups'[r][k].status # "idle"

\* C7 as stated: whenever the free-flow request is issued, the current
\* request has been issued and its response has not been received, whatever
\* the provider.
C7_AlwaysConcurrent ==
    [][\A r \in Routes :
          IssuedNow(r, "free_flow") => Lk(r, "current").status = "inflight"]_vars

\* C7 amended: with a provider that suspends on the network (Mapbox, Google)
\* the free-flow request is issued while the current request is in flight,
\* and the current request is issued without waiting for the free-flow one;
\* with MockAPI, which never suspends, the current lookup has completed
\* when the free-flow lookup starts.
C7_ConcurrentWhenSuspending ==
    [][\A r \in Routes :
          /\ IssuedNow(r, "free_flow") =>
                IF Suspends(provider)
                THEN Lk(r, "current").status = "inflight"
                ELSE Lk(r, "current").status = "ok"
          /\ IssuedNow(r, "current") => Lk(r, "free_flow").status = "idle"]_vars

\* C7 witness: both lookups of the pair in flight
C7_Witness ==
    \E r \in Routes :
        /\ Lk(r, "current").status = "inflight"
        /\ Lk(r, "free_flow").status = "inflight"

----------------------------------------------------------------------------
(* Properties of one cycle of the monitor *)

Qualifies(r) ==
    /\ evals[r].status = "returned"
    /\ Result(r).is_congested
    /\ Result(r).alternative_available

\* The results the callback received for route r in this cycle, in order
CallsFor(r) ==
    LET Mine(c) == c.result.route_name = route_configs[r].name
        mine == SelectSeq(callback_calls, Mine)
    IN  [i \in 1 .. Len(mine) |-> mine[i].result]

LogCount(line) == Cardinality({i \in 1 .. Len(log) : log[i] = line})

\* C8: at the end of a cycle in which the evaluation of a route raised, that
\* route has one error line in the log, every other route was processed (a
\* qualifying one got its callback, a failed one its log line), and the
\* sleep is the normal interval, not the recovery pause.
C8_RouteErrorSkipped ==
    phase = "sleep" =>
        \A r \in Routes :
            evals[r].status = "raised" =>
                /\ LogCount(<<"route_error", route_configs[r].name>>) = 1
                /\ sleep_for = check_interval
                /\ \A q \in Routes \ {r} :
                      /\ (callback /\ Qualifies(q)) => Len(CallsFor(q)) = 1
                      /\ evals[q].status = "raised" =>
                            LogCount(<<"route_error", route_configs[q].name>>) = 1

\* C8 witness: the first route failed and the callback was invoked for a
\* later route of the same cycle
C8_Witness ==
    /\ phase = "sleep"
    /\ NumRoutes >= 2
    /\ evals[1].status = "raised"
    /\ \E q \in Routes \ {1} : Qualifies(q) /\ Len(CallsFor(q)) = 1

\* C9: with a callback supplied, at the end of a cycle the callback has been
\* invoked exactly once, with the route's result, for every route that
\* returned a congested result with an alternative, and not at all for any
\* other route; it is not invoked before the results are processed.
C9_CallbackExactlyOnce ==
    callback =>
        /\ phase = "gather" => callback_calls = <<>>
        /\ phase = "sleep" =>
              /\ \A r \in Routes :
                    CallsFor(r) = IF Qualifies(r) THEN <<Result(r)>> ELSE <<>>
              /\ Len(callback_calls) = Cardinality({r \in Routes : Qualifies(r)})

\* C9 witness: a cycle with a route that qualifies, a congested route
\* without an alternative, and the callback invoked once
C9_Witness ==
    /\ phase = "sleep"
    /\ callback
    /\ Len(callback_calls) = 1
    /\ \E r \in Routes : Qualifies(r)
    /\ \E r \in Routes :
          /\ evals[r].status = "returned"
          /\ Result(r).is_congested
          /\ ~Result(r).alternative_available

\* C10: at the end of a cycle in which the callback raised for a route, the
\* error has one line in the log, every qualifying route of the cycle got
\* its callback, and the sleep is the normal interval.
C10_CallbackErrorLogged ==
    phase = "sleep" =>
        \A i \in 1 .. Len(callback_calls) :
            callback_calls[i].raised =>
                /\ LogCount(<<"callback_error", callback_calls[i].result.route_name>>) = 1
                /\ sleep_for = check_interval
                /\ \A q \in Routes : Qualifies(q) => Len(CallsFor(q)) = 1

\* C10 witness: the callback raised for one route and was still invoked
\* for a later one
C10_Witness ==
    /\ phase = "sleep"
    /\ Len(callback_calls) >= 2
    /\ callback_calls[1].raised

----------------------------------------------------------------------------
(* Properties of the monitor loop *)

LoopErrors == Cardinality({i \in 1 .. Len(log) : log[i][1] = "loop_error"})

\* C11: the loop is never stopped by an error: a cycle in which an
\* unexpected error was raised pauses 60 seconds, a cycle without one sleeps
\* the configured interval, and after either sleep the next cycle can start.
C11_LoopNeverStops ==
    /\ phase \in {"gather", "sleep"}
    /\ phase = "sleep" =>
          /\ sleep_for = IF LoopErrors > 0 THEN RecoveryPause ELSE check_interval
          /\ cycle < MaxCycles => ENABLED NextCycle
    /\ phase = "gather" => (sleep_for = 0 /\ LoopErrors = 0)

\* C11 witness: the recovery pause after an unexpected error, with
\* evaluations of the cycle still unfinished and a next cycle to come
C11_Witness ==
    /\ phase = "sleep"
    /\ cycle < MaxCycles
    /\ sleep_for = RecoveryPause
    /\ LoopErrors = 1
    /\ \E r \in Routes : ~Finished(evals[r])

----------------------------------------------------------------------------
(* Properties of the CLI commands *)

\* C12: under the watch command a failed route evaluation does not end the
\* monitoring: the command has not exited with a non-zero status; only the
\* check command exits non-zero on an error.
C12_WatchSurvivesProviderError ==
    (watch.state = "exited" /\ watch.exit_code = 1) => watch.command = "check"

----------------------------------------------------------------------------
(* Properties of MapboxAPI.get_route *)

CeilDiv(a, b) == (a + b - 1) \div b

DropFirst(s) == IF s = <<>> THEN <<>> ELSE Tail(s)

\* The sequences of seqs joined, the first element of every one after the
\* first left out
RECURSIVE JoinDroppingFirsts(_, _)
JoinDroppingFirsts(seqs, j) ==
    IF j > Len(seqs) THEN <<>>
    ELSE (IF j = 1 THEN seqs[j] ELSE DropFirst(seqs[j])) \o JoinDroppingFirsts(seqs, j + 1)

\* The sequences of seqs joined onto acc, the first element of one left out
\* when something precedes it
RECURSIVE JoinDroppingBoundaries(_, _, _)
JoinDroppingBoundaries(acc, seqs, j) ==
    IF j > Len(seqs) THEN acc
    ELSE JoinDroppingBoundaries(
             acc \o (IF acc # <<>> THEN DropFirst(seqs[j]) ELSE seqs[j]), seqs, j + 1)

NoAdjacentDuplicate(s) == \A k \in 1 .. Len(s) - 1 : s[k] # s[k + 1]

\* C13: a completed get_route was chunked exactly when it had more than 23
\* waypoints; chunked, it issued ceil(L / 23) sub-requests, otherwise one
\* request.
C13_ChunkCount ==
    LET L == Len(mbx.waypoints)
    IN  /\ mbx.state \in {"awaiting", "returned", "raised"} =>
              /\ mbx.chunked <=> L > 23
              /\ Len(mbx.requests) <= (IF L > 23 THEN CeilDiv(L, 23) ELSE 1)
        /\ mbx.state = "returned" =>
              Len(mbx.requests) = (IF L > 23 THEN CeilDiv(L, 23) ELSE 1)

\* C13 witness: a call that returned after three sub-requests
C13_Witness ==
    /\ mbx.state = "returned"
    /\ mbx.chunked
    /\ Len(mbx.requests) = 3
    /\ Len(mbx.waypoints) > 2 * 23

\* C14: the sub-requests of a chunked call form a chain from the start:
\* each later one starts where the previous one ended, an interior one ends
\* at the last waypoint of its group, only the last one ends at the
\* destination, and read in order they visit the start, every waypoint once
\* in the original order, and the end.
C14_SubRequestChain ==
    (mbx.state \in {"awaiting", "returned", "raised"} /\ mbx.chunked) =>
        LET reqs == mbx.requests
            L == Len(mbx.waypoints)
            n == CeilDiv(L, 23)
        IN  /\ reqs[1][1] = LngLat(mbx.start)
            /\ \A j \in 2 .. Len(reqs) : reqs[j][1] = Last(reqs[j - 1])
            /\ \A j \in 1 .. Len(reqs) :
                  /\ j < n => Last(reqs[j]) = LngLat(mbx.waypoints[j * 23])
                  /\ (Last(reqs[j]) = LngLat(mbx.end)) <=> j = n
            /\ mbx.state = "returned" =>
                  JoinDroppingFirsts(reqs, 1)
                      = [k \in 1 .. L + 2 |-> LngLat(Point(k - 1))]

\* C14 witness: a returned call of three sub-requests, the last of them with
\* one waypoint of its own
C14_Witness ==
    /\ mbx.state = "returned"
    /\ Len(mbx.requests) = 3
    /\ Len(mbx.requests[3]) = 3

\* C15 as stated: the merged waypoints are the first sub-request's points
\* followed by the points of every later sub-request without their first,
\* whatever the earlier sub-requests resolved to.
C15_AlwaysDropsFirst ==
    (mbx.state = "returned" /\ mbx.chunked) =>
        mbx.all_route_waypoints = JoinDroppingFirsts(mbx.geometries, 1)

\* C15 amended: the first point of a later sub-request is left out when the
\* sequence merged so far is not empty; when every earlier sub-request
\* resolved to an empty geometry its points are kept whole.  No point is
\* repeated at a boundary.
C15_DropsDuplicatedBoundary ==
    (mbx.state = "returned" /\ mbx.chunked) =>
        /\ mbx.all_route_waypoints = JoinDroppingBoundaries(<<>>, mbx.geometries, 1)
        /\ NoAdjacentDuplicate(mbx.all_route_waypoints)

\* C15 witness: the first sub-request resolved to an empty geometry and the
\* points of the second one were kept whole, after which a third one lost
\* its first point
C15_Witness ==
    /\ mbx.state = "returned"
    /\ Len(mbx.geometries) = 3
    /\ mbx.geometries[1] = <<>>
    /\ Len(mbx.geometries[2]) = 2
    /\ Len(mbx.geometries[3]) = 2
    /\ mbx.all_route_waypoints = mbx.geometries[2] \o Tail(mbx.geometries[3])

----------------------------------------------------------------------------
(* Properties of the synchronous operations *)

Done(op) == call.op = op /\ call.state \in {"returned", "raised"}

\* C16: create_api_client resolves an absent or empty provider identifier to
\* the mock provider and does not fail then; an unrecognized identifier
\* fails with the configuration error (ValueError); mapbox or google with
\* the key missing from both the config and the environment variable fails
\* with the configuration error whose message names that variable; in every
\* other case the client of the named provider (in any letter case) is
\* returned, holding the config's key when there is one and the
\* environment's key otherwise.
C16_Factory ==
    Done("create_api_client") =>
        LET id == call.input.provider
            config_key == call.input.api_key
            has_config_key == config_key \notin {Absent, ""}
            returns(variant) ==
                call.state = "returned" /\ call.output.variant = variant
            returns_with(variant, key) ==
                returns(variant) /\ call.output.api_key = key
            fails(message) ==
                /\ call.state = "raised"
                /\ call.error = [type |-> "ValueError", message |-> message]
            http(variant, variable, message) ==
                LET env_key == call.outside[variable]
                IN  /\ has_config_key => returns_with(variant, config_key)
                    /\ (~has_config_key /\ env_key # Absent) =>
                           returns_with(variant, env_key)
                    /\ (~has_config_key /\ env_key = Absent) => fails(message)
        IN  /\ id \in {Absent, ""} => returns("MockAPI")
            /\ id = "mock" => returns("MockAPI")
            /\ id = "here" => fails("Unsupported API provider")
            /\ id \in {"mapbox", "Mapbox"} =>
                  http("MapboxAPI", "MAPBOX_API_KEY",
                       "Mapbox API key not found in config or MAPBOX_API_KEY environment variable")
            /\ id \in {"google", "GOOGLE"} =>
                  http("GoogleMapsAPI", "GOOGLE_MAPS_API_KEY",
                       "Google Maps API key not found in config or GOOGLE_MAPS_API_KEY environment variable")

\* A mixed-case mapbox identifier with a key in the config and another in
\* the environment: the client holds the config's key
C16_Witness ==
    /\ Done("create_api_client")
    /\ call.input = [provider |-> "Mapbox", api_key |-> "config-key"]
    /\ call.outside.MAPBOX_API_KEY = "env-mapbox-key"
    /\ call.state = "returned"
    /\ call.output.api_key = "config-key"

\* C17: get_optimal_route_waypoints returns the waypoints of the provider's
\* optimal route without the first and the last one, the others in their
\* order; from a response of two or fewer points it returns the empty
\* sequence.
C17_InteriorWaypoints ==
    Done("get_optimal_route_waypoints") =>
        LET waypoints == call.outside.waypoints
            n == Len(waypoints)
        IN  /\ call.state = "returned"
            /\ n <= 2 => call.output = <<>>
            /\ n > 2 =>
                  /\ Len(call.output) = n - 2
                  /\ \A j \in 1 .. n - 2 : call.output[j] = waypoints[j + 1]

\* A five-point response gives its three interior points
C17_Witness ==
    /\ Done("get_optimal_route_waypoints")
    /\ Len(call.outside.waypoints) = 5
    /\ call.output = <<Point(1), Point(2), Point(3)>>

OutOfBounds(v) == v[1] < -90 \/ v[1] > 90 \/ v[2] < -180 \/ v[2] > 180

\* C18: constructing a RouteConfig raises a validation error when the
\* start, the end or an entry of free_flow_route has a latitude outside
\* [-90, 90] or a longitude outside [-180, 180]; otherwise it succeeds and
\* congestion_threshold is 1.5.
C18_CoordinatesValidated ==
    Done("RouteConfig") =>
        LET kw == call.input
            bad == \/ OutOfBounds(kw.start_latlong)
                   \/ OutOfBounds(kw.end_latlong)
                   \/ \E j \in 1 .. Len(kw.free_flow_route) :
                          OutOfBounds(kw.free_flow_route[j])
        IN  /\ bad => (call.state = "raised" /\ call.error.type = "ValidationError")
            /\ ~bad => /\ call.state = "returned"
                       /\ call.output.congestion_threshold = <<3, 2>>
                       /\ call.output.start_latlong = kw.start_latlong
                       /\ call.output.end_latlong = kw.end_latlong
                       /\ call.output.free_flow_route = kw.free_flow_route

\* Start and end on the bounds, the second free-flow waypoint one degree
\* beyond: construction fails on free_flow_route alone
C18_Witness ==
    /\ Done("RouteConfig")
    /\ call.input.start_latlong = <<-90, -180>>
    /\ call.input.end_latlong = <<90, 180>>
    /\ call.input.free_flow_route = <<<<0, 0>>, <<0, 181>>>>
    /\ call.state = "raised"
    /\ call.error.message = <<"free_flow_route">>

\* The seconds a leg counts for: in traffic when traffic is asked for and
\* the backend reports it
Seconds(leg, avoid_traffic) ==
    IF avoid_traffic \/ leg.duration_in_traffic = None
    THEN leg.duration
    ELSE leg.duration_in_traffic

\* C19: GoogleMapsAPI.get_route called with a non-empty waypoint list
\* returns the travel time and the distance of the whole route, the sum
\* over every leg of the backend's route.
C19_WholeRoute ==
    (/\ Done("GoogleMapsAPI.get_route")
     /\ call.state = "returned"
     /\ call.input.waypoints # <<>>) =>
        LET legs == call.outside.legs
            seconds == Sum([j \in 1 .. Len(legs) |->
                               Seconds(legs[j], call.input.avoid_traffic)])
            meters == Sum([j \in 1 .. Len(legs) |-> legs[j].distance])
        IN  /\ RatEQ(call.output.travel_time_minutes, <<seconds, 60>>)
            /\ RatEQ(call.output.distance_km, <<meters, 1000>>)

----------------------------------------------------------------------------
(* The fields of a result taken together *)

\* C20: in every result the evaluation returns, alternative_available
\* implies is_congested and an alternative_travel_time that is not None; a
\* result that is not congested has alternative_available false and
\* alternative_travel_time None; and alternative_travel_time is not None
\* only if the alternative lookup was issued and succeeded, and then it is
\* that lookup's time.
C20_ResultConsistent ==
    \A r \in Routes :
        evals[r].status = "returned" =>
            /\ Result(r).alternative_available =>
                  (Result(r).is_congested /\ Result(r).alternative_travel_time # None)
            /\ ~Result(r).is_congested =>
                  /\ ~Result(r).alternative_available
                  /\ Result(r).alternative_travel_time = None
            /\ Result(r).alternative_travel_time # None =>
                  /\ "alternative" \in Issued(r)
                  /\ Lk(r, "alternative").status = "ok"
                  /\ Result(r).alternative_travel_time = Lk(r, "alternative").time

\* A congested result with an alternative available, and the time of the
\* alternative lookup in it
C20_Witness ==
    \E r \in Routes :
        /\ evals[r].status = "returned"
        /\ Result(r).alternative_available
        /\ Result(r).is_congested
        /\ Result(r).alternative_travel_time = Lk(r, "alternative").time
        /\ Result(r).alternative_travel_time # None

----------------------------------------------------------------------------
(* The size of a Mapbox request *)

\* C21: every request MapboxAPI.get_route has issued, the only request of
\* an unchunked call and each sub-request of a chunked one, carries at
\* most 25 coordinates, its start and its end among them.
C21_RequestWithinLimit ==
    mbx.state \in {"awaiting", "returned", "raised"} =>
        /\ mbx.requests # <<>>
        /\ \A j \in 1 .. Len(mbx.requests) :
              /\ Len(mbx.requests[j]) >= 2
              /\ Len(mbx.requests[j]) <= 25

\* A chunked call whose last sub-request carries a full group of 23
\* waypoints between its start and the destination: 25 coordinates
C21_Witness ==
    /\ mbx.state = "returned"
    /\ mbx.chunked
    /\ Len(mbx.requests) = 2
    /\ Len(mbx.requests[1]) = 24
    /\ Len(mbx.requests[2]) = 25

----------------------------------------------------------------------------
(* The alternative of a route without free-flow waypoints *)

\* C22: for a route whose free_flow_route is empty, the alternative lookup
\* of an evaluation has the arguments of its current lookup: the route's
\* start and end, no waypoints, traffic-aware.  When the provider answers
\* the two with the same travel time (the mock always does), the result has
\* alternative_travel_time equal to current_travel_time and
\* alternative_available false.
C22_AlternativeRepeatsCurrent ==
    \A r \in Routes :
        (route_configs[r].free_flow_route = <<>> /\ "alternative" \in Issued(r)) =>
            /\ Lk(r, "alternative").request = Lk(r, "current").request
            /\ Lk(r, "alternative").request =
                   [start |-> route_configs[r].start_latlong,
                    end |-> route_configs[r].end_latlong,
                    waypoints |-> <<>>, avoid_traffic |-> FALSE]
            /\ provider = "mock" =>
                   /\ Lk(r, "alternative").status = "ok"
                   /\ Lk(r, "alternative").time = Lk(r, "current").time
            /\ (/\ evals[r].status = "returned"
                /\ Lk(r, "alternative").status = "ok"
                /\ Lk(r, "alternative").time = Lk(r, "current").time) =>
                   /\ Result(r).alternative_travel_time = Result(r).current_travel_time
                   /\ Result(r).alternative_travel_time # None
                   /\ ~Result(r).alternative_available

\* The mock provider, a congested route without free-flow waypoints: the
\* alternative is the current time again and is reported as not available
C22_Witness ==
    \E r \in Routes :
        /\ provider = "mock"
        /\ route_configs[r].free_flow_route = <<>>
        /\ evals[r].status = "returned"
        /\ Result(r).is_congested
        /\ Lk(r, "alternative").status = "ok"
        /\ Result(r).alternative_travel_time = Result(r).current_travel_time
        /\ Result(r).current_travel_time > 0
        /\ ~Result(r).alternative_available

====
